---------------------------- MODULE Spec2Model ----------------------------
(***************************************************************************)
(* Model of register_preprocessor_app.py: one Streamlit script that reads  *)
(* an electoral register (CSV, PDF, image, pasted table), parses it into a *)
(* frame df_raw, derives a polling district and offers a CSV download.     *)
(*                                                                         *)
(* A Python str is a sequence of one-character strings, so that strip,     *)
(* upper, re.split, re.match and str.extract are computed character by     *)
(* character.  A missing value (None / NaN) is the one-element sequence NA.*)
(***************************************************************************)
EXTENDS Integers, Sequences, FiniteSets, TLC

VARIABLES
  pc,                       \* position of the script run
  input_method,             \* st.radio(...) selection (line 32)
  upload,                   \* what the widget of the selected branch returned
  translate_marker_defined, \* is the name translate_marker bound (def at line 136)
  df_raw,                   \* the frame bound by an input branch, or Unbound
  messages,                 \* st.success / st.warning / st.error calls, in order
  shown,                    \* frame passed to st.dataframe (line 161)
  download,                 \* st.download_button payload (lines 163-168)
  tm_in,                    \* argument of a direct call of translate_marker
  tm_out,                   \* its return value
  tm_called                 \* has the direct call returned

vars == <<pc, input_method, upload, translate_marker_defined, df_raw, messages,
          shown, download, tm_in, tm_out, tm_called>>

-----------------------------------------------------------------------------
(* Bounds of the model *)

MaxMarkerLen == 3   \* longest enumerated argument of translate_marker
MaxLines == 2       \* most text lines in an uploaded PDF's text layer
MaxRows == 2        \* most data rows in an uploaded / pasted table

-----------------------------------------------------------------------------
(* Characters and strings *)

\* U+2013, the dash used in the descriptions of lines 140-144; the string
\* syntax is ASCII only, so the character is written by its code point.
EnDash == "U+2013"

\* pandas' missing value (None, NaN): what pd.isna answers True for.
NA == <<"<NA>">>

LowerChars == <<"a","b","c","d","e","f","g","h","i","j","k","l","m",
                "n","o","p","q","r","s","t","u","v","w","x","y","z">>
UpperChars == <<"A","B","C","D","E","F","G","H","I","J","K","L","M",
                "N","O","P","Q","R","S","T","U","V","W","X","Y","Z">>
DigitChars == <<"0","1","2","3","4","5","6","7","8","9">>

Range(s) == {s[i] : i \in DOMAIN s}

IsUpper(c) == c \in Range(UpperChars)
IsLower(c) == c \in Range(LowerChars)
IsDigit(c) == c \in Range(DigitChars)
\* \s of the re module, on the characters the model uses
IsSpace(c) == c \in {" ", "\t", "\n"}
\* \w of the re module, on the characters the model uses
IsWord(c)  == IsUpper(c) \/ IsLower(c) \/ IsDigit(c) \/ c = "_"

\* str.upper, one character
upper_char(c) ==
  IF IsLower(c) THEN UpperChars[CHOOSE i \in DOMAIN LowerChars : LowerChars[i] = c]
  ELSE c

\* str.upper
upper(s) == [i \in DOMAIN s |-> upper_char(s[i])]

\* str.strip: drop leading and trailing whitespace
strip(s) ==
  LET keep == {i \in DOMAIN s : ~IsSpace(s[i])}
  IN  IF keep = {} THEN <<>>
      ELSE LET lo == CHOOSE i \in keep : \A j \in keep : i <= j
               hi == CHOOSE i \in keep : \A j \in keep : i >= j
           IN  SubSeq(s, lo, hi)

\* sep.join(list)
RECURSIVE join(_, _)
join(sep, list) ==
  IF list = <<>> THEN <<>>
  ELSE IF Len(list) = 1 THEN list[1]
  ELSE list[1] \o sep \o join(sep, Tail(list))

\* the k-th smallest element of a set of numbers
Nth(S, k) == CHOOSE x \in S : Cardinality({y \in S : y < x}) = k - 1

\* str.split(sep) for a one-character separator: the pieces between the
\* occurrences of sep (one piece more than there are occurrences)
split(s, sep) ==
  LET at == {i \in DOMAIN s : s[i] = sep}
      n  == Cardinality(at)
  IN  [k \in 1..(n + 1) |->
         SubSeq(s, IF k = 1 THEN 1 ELSE Nth(at, k - 1) + 1,
                   IF k = n + 1 THEN Len(s) ELSE Nth(at, k) - 1)]

\* [line for line in list if line.strip()]
SelectNonBlank(list) == SelectSeq(list, LAMBDA line : strip(line) # <<>>)

-----------------------------------------------------------------------------
(* translate_marker, lines 136-150 *)

\* "Eligible for all local elections"
DefaultEligible ==
  <<"E","l","i","g","i","b","l","e"," ","f","o","r"," ","a","l","l"," ","l","o","c","a","l",
    " ","e","l","e","c","t","i","o","n","s">>

\* "Overseas voter - Parliamentary only"
DescF ==
  <<"O","v","e","r","s","e","a","s"," ","v","o","t","e","r"," ",EnDash," ","P","a","r","l",
    "i","a","m","e","n","t","a","r","y"," ","o","n","l","y">>

\* "EU citizen - local elections only"
DescG ==
  <<"E","U"," ","c","i","t","i","z","e","n"," ",EnDash," ","l","o","c","a","l"," ","e","l",
    "e","c","t","i","o","n","s"," ","o","n","l","y">>

\* "EU citizen (retained rights/qualifying)"
DescB ==
  <<"E","U"," ","c","i","t","i","z","e","n"," ","(","r","e","t","a","i","n","e","d"," ","r",
    "i","g","h","t","s","/","q","u","a","l","i","f","y","i","n","g",")">>

\* "Peer - local elections only"
DescL ==
  <<"P","e","e","r"," ",EnDash," ","l","o","c","a","l"," ","e","l","e","c","t","i","o","n",
    "s"," ","o","n","l","y">>

\* "Qualifying foreign citizen - local elections only"
DescM ==
  <<"Q","u","a","l","i","f","y","i","n","g"," ","f","o","r","e","i","g","n"," ","c","i","t",
    "i","z","e","n"," ",EnDash," ","l","o","c","a","l"," ","e","l","e","c","t","i","o","n",
    "s"," ","o","n","l","y">>

\* "Attainer (not yet voting age)"
DescN ==
  <<"A","t","t","a","i","n","e","r"," ","(","n","o","t"," ","y","e","t"," ","v","o","t","i",
    "n","g"," ","a","g","e",")">>

\* "Unknown ("
UnknownOpen == <<"U","n","k","n","o","w","n"," ","(">>

\* ", "
JoinSep == <<",", " ">>

\* the dict of lines 139-146
mapping ==
  [c \in {"F", "G", "B", "L", "M", "N"} |->
     CASE c = "F" -> DescF
       [] c = "G" -> DescG
       [] c = "B" -> DescB
       [] c = "L" -> DescL
       [] c = "M" -> DescM
       [] c = "N" -> DescN]

\* mapping.get(char, f"Unknown ({char})"), line 149
mapping_get(char) ==
  IF char \in DOMAIN mapping THEN mapping[char]
  ELSE UnknownOpen \o <<char>> \o <<")">>

\* pd.isna(marker), line 137
isna(v) == v = NA

\* A variant that lists each code once: the decoder with the repeats dropped.
translate_marker_dedup(marker) ==
  IF isna(marker) THEN DefaultEligible
  ELSE LET m == upper(strip(marker))
           first == SelectSeq([i \in DOMAIN m |-> i],
                              LAMBDA i : \A j \in 1..(i - 1) : m[j] # m[i])
       IN  join(JoinSep, [k \in DOMAIN first |-> mapping_get(m[first[k]])])

\* def translate_marker(marker), lines 136-150
translate_marker(marker) ==
  IF isna(marker) THEN DefaultEligible
  ELSE LET m == upper(strip(marker))
           output == [i \in DOMAIN m |-> mapping_get(m[i])]
       IN  join(JoinSep, output)

-----------------------------------------------------------------------------
(* The regular expressions of the PDF branch, lines 61-73 *)

\* the last position of the maximal whitespace run of s that starts at i
ws_run_end(s, i) ==
  CHOOSE j \in i..Len(s) :
    /\ \A k \in i..j : IsSpace(s[k])
    /\ j = Len(s) \/ ~IsSpace(s[j + 1])

\* re.split(r'\s{2,}', line), line 61: the pieces between the maximal runs of
\* two or more whitespace characters
re_split(line) ==
  LET at == {i \in DOMAIN line :
               /\ IsSpace(line[i])
               /\ i = 1 \/ ~IsSpace(line[i - 1])
               /\ ws_run_end(line, i) > i}
      n  == Cardinality(at)
  IN  [k \in 1..(n + 1) |->
         SubSeq(line, IF k = 1 THEN 1 ELSE ws_run_end(line, Nth(at, k - 1)) + 1,
                      IF k = n + 1 THEN Len(line) ELSE Nth(at, k) - 1)]

\* re.match(r'\d{2}/\d{2}/\d{4}', s), lines 67-68: the pattern at the start of s
date_pattern(s) ==
  /\ Len(s) >= 10
  /\ \A i \in {1, 2, 4, 5, 7, 8, 9, 10} : IsDigit(s[i])
  /\ s[3] = "/"
  /\ s[6] = "/"

\* re.fullmatch(r'[A-Z]{1,3}', s), line 73
letters_pattern(s) ==
  /\ Len(s) \in 1..3
  /\ \A i \in DOMAIN s : IsUpper(s[i])

\* "Will become eligible to vote on "
WillBecome ==
  <<"W","i","l","l"," ","b","e","c","o","m","e"," ","e","l","i","g","i","b","l","e"," ","t",
    "o"," ","v","o","t","e"," ","o","n"," ">>

\* parts = [part.strip() for part in re.split(r'\s{2,}', line)], line 61
parts_of(line) ==
  LET raw == re_split(line) IN [i \in DOMAIN raw |-> strip(raw[i])]

\* the field-count guard of line 62
MinParts == 4

\* The body of the loop over lines, lines 60-86: the rows the line appends to
\* extracted (none or one).  `defined` says whether the name translate_marker
\* is bound when line 77 looks it up; if it is not, the lookup raises
\* NameError, which the bare except of line 85 turns into `continue`.
heuristic_line(line, defined) ==
  LET parts == parts_of(line)
  IN  IF Len(parts) >= MinParts
      THEN LET elector_number  == parts[1]
               possible_marker == parts[2]
           IN  IF date_pattern(possible_marker)
               THEN <<<<elector_number, possible_marker, parts[3], parts[4],
                        WillBecome \o possible_marker>>>>
               ELSE IF letters_pattern(possible_marker)
               THEN IF defined
                    THEN <<<<elector_number, possible_marker, parts[3], parts[4],
                             translate_marker(possible_marker)>>>>
                    ELSE <<>>
               ELSE <<<<elector_number, <<>>, possible_marker, parts[3], <<>>>>>>
      ELSE <<>>

\* extracted after the loop of lines 59-86
RECURSIVE extract(_, _)
extract(lines, defined) ==
  IF lines = <<>> THEN <<>>
  ELSE heuristic_line(lines[1], defined) \o extract(Tail(lines), defined)

\* pages_text of lines 45-49: the pages whose extract_text() is truthy
truthy(pages) == SelectSeq(pages, LAMBDA page_text : page_text # <<>> /\ page_text # NA)

\* text = "\n".join(pages_text), line 50
text_of(pages) == join(<<"\n">>, truthy(pages))

\* lines = [line.strip() for line in text.split("\n") if line.strip()], line 55
lines_of(text) ==
  LET kept == SelectNonBlank(split(text, "\n"))
  IN  [i \in DOMAIN kept |-> strip(kept[i])]

\* rows = [line.split("\t") for line in ocr_text.split("\n") if line.strip()],
\* lines 104 and 118
rows_of(ocr_text) ==
  LET kept == SelectNonBlank(split(ocr_text, "\n"))
  IN  [i \in DOMAIN kept |-> split(kept[i], "\t")]

-----------------------------------------------------------------------------
(* Frames: the part of pandas.DataFrame the script uses *)

\* 'df_raw' not in locals(), line 155
Unbound ==
  [bound |-> FALSE, named |-> FALSE, columns |-> <<>>, width |-> 0,
   rows |-> <<>>, numeric |-> {}]

\* pd.DataFrame(extracted, columns=[...]), line 89: str cells, object dtype
DataFrame(rows, columns) ==
  [bound |-> TRUE, named |-> TRUE, columns |-> columns, width |-> Len(columns),
   rows |-> rows, numeric |-> {}]

Max(S) == CHOOSE x \in S : \A y \in S : x >= y

\* pd.DataFrame(rows), lines 105 and 119: a RangeIndex of columns as wide as
\* the longest row, the shorter rows filled with None
DataFrameOfRows(rows) ==
  LET w == IF rows = <<>> THEN 0 ELSE Max({Len(rows[i]) : i \in DOMAIN rows})
  IN  [bound |-> TRUE, named |-> FALSE, columns |-> <<>>, width |-> w,
       rows |-> [i \in DOMAIN rows |->
                   [j \in 1..w |-> IF j <= Len(rows[i]) THEN rows[i][j] ELSE NA]],
       numeric |-> {}]

\* does the C parser of read_csv read the field as a number (on the characters
\* the model uses: digits and at most one decimal point)
is_number(s) ==
  /\ s # <<>>
  /\ \A i \in DOMAIN s : IsDigit(s[i]) \/ s[i] = "."
  /\ \E i \in DOMAIN s : IsDigit(s[i])
  /\ Cardinality({i \in DOMAIN s : s[i] = "."}) <= 1

\* pd.read_csv(...) of a parsable table, lines 37 and 128: an empty field is
\* NaN, and a column all of whose fields are numbers or empty gets a numeric
\* dtype (a table without rows has object columns)
read_csv(columns, rows) ==
  [bound |-> TRUE, named |-> TRUE, columns |-> columns, width |-> Len(columns),
   rows |-> [i \in DOMAIN rows |->
               [j \in DOMAIN columns |-> IF rows[i][j] = <<>> THEN NA ELSE rows[i][j]]],
   numeric |-> {j \in DOMAIN columns :
                  /\ rows # <<>>
                  /\ \A i \in DOMAIN rows : rows[i][j] = <<>> \/ is_number(rows[i][j])}]

\* "Elector Number" in df_raw.columns, line 157
has_column(df, name) ==
  df.named /\ \E j \in DOMAIN df.columns : df.columns[j] = name

column_index(df, name) == CHOOSE j \in DOMAIN df.columns : df.columns[j] = name

\* A variant of the pattern that captures one word character only: ^(\w).
leading_word_one(s) ==
  IF isna(s) \/ s = <<>> \/ ~IsWord(s[1]) THEN NA ELSE <<s[1]>>

\* Series.str.extract(r'^(\w+)')[0] on one cell, line 158: the leading run of
\* word characters, NaN for a missing cell and for a cell without such a run
word_run(s) ==
  CHOOSE n \in 0..Len(s) :
    /\ \A i \in 1..n : IsWord(s[i])
    /\ n = Len(s) \/ ~IsWord(s[n + 1])

leading_word(s) ==
  IF isna(s) THEN NA
  ELSE LET n == word_run(s) IN IF n = 0 THEN NA ELSE SubSeq(s, 1, n)

\* does df[name].str raise AttributeError (a numeric column has no .str)
str_accessor_raises(df, name) == column_index(df, name) \in df.numeric

\* df[name] = values, line 158: overwrite the column, or add it as the last
set_column(df, name, values) ==
  IF has_column(df, name)
  THEN LET k == column_index(df, name)
       IN  [df EXCEPT !.rows = [i \in DOMAIN df.rows |->
                                  [df.rows[i] EXCEPT ![k] = values[i]]],
                      !.numeric = df.numeric \ {k}]
  ELSE [df EXCEPT !.columns = Append(df.columns, name),
                  !.width = df.width + 1,
                  !.rows = [i \in DOMAIN df.rows |-> Append(df.rows[i], values[i])]]

\* lines 157-158
with_polling_district(df) ==
  IF has_column(df, "Elector Number")
  THEN LET k == column_index(df, "Elector Number")
       IN  set_column(df, "Polling District",
                      [i \in DOMAIN df.rows |-> leading_word(df.rows[i][k])])
  ELSE df

\* df_raw.head(20), line 161
HeadRows == 20

head(df) ==
  [df EXCEPT !.rows = SubSeq(df.rows, 1, IF Len(df.rows) < HeadRows
                                         THEN Len(df.rows) ELSE HeadRows)]

NoTable == Unbound

\* df_raw.to_csv(index=False), line 165, as the header and the fields of each
\* record: a missing value is written as the empty field, a RangeIndex column
\* by its number
to_csv(df) ==
  [offered |-> TRUE,
   file_name |-> "Clean_Electoral_Register.csv",
   header |-> IF df.named THEN df.columns
              ELSE [j \in 1..df.width |-> DigitChars[j]],
   rows |-> [i \in DOMAIN df.rows |->
               [j \in DOMAIN df.rows[i] |->
                  IF isna(df.rows[i][j]) THEN <<>> ELSE df.rows[i][j]]]]

NoDownload ==
  [offered |-> FALSE, file_name |-> "", header |-> <<>>, rows |-> <<>>]

-----------------------------------------------------------------------------
(* The inputs the runs are checked on *)

SeqsUpTo(S, n) == UNION {[1..k -> S] : k \in 0..n}

\* 'BA1001  AB  DOE, JANE  4 HIGH ST  AB1 2CD'
LineExample ==
  <<"B","A","1","0","0","1"," "," ","A","B"," "," ","D","O","E",","," ","J","A","N","E"," ",
    " ","4"," ","H","I","G","H"," ","S","T"," "," ","A","B","1"," ","2","C","D">>

\* 'B1  F  Dj  4H'
LineLetter4 ==
  <<"B","1"," "," ","F"," "," ","D","j"," "," ","4","H">>

\* 'B1  01/06/2026  Dj  4H'
LineDate ==
  <<"B","1"," "," ","0","1","/","0","6","/","2","0","2","6"," "," ","D","j"," "," ","4","H">>

\* 'C_2.x  01/06/2026x  Dj  4H  P1'
LineDateTail ==
  <<"C","_","2",".","x"," "," ","0","1","/","0","6","/","2","0","2","6","x"," "," ","D","j",
    " "," ","4","H"," "," ","P","1">>

\* 'B1  D, J  4H  P1'
LineNoMarker4 ==
  <<"B","1"," "," ","D",","," ","J"," "," ","4","H"," "," ","P","1">>

\* 'B1  D, J  4H'
LineNoMarker3 ==
  <<"B","1"," "," ","D",","," ","J"," "," ","4","H">>

\* 'B1  FN  Dj'
LineLetter3 ==
  <<"B","1"," "," ","F","N"," "," ","D","j">>

\* 'B1 D 4H'
LineOneField ==
  <<"B","1"," ","D"," ","4","H">>

\* '  '
LineBlank ==
  <<" "," ">>

\* ' .7 \t fg   Dj  4H '
LineUntrimmed ==
  <<" ",".","7"," ","\t"," ","f","g"," "," "," ","D","j"," "," ","4","H"," ">>

\* 'B1  FGBL  Dj  4H'
LineFourUpper ==
  <<"B","1"," "," ","F","G","B","L"," "," ","D","j"," "," ","4","H">>

\* 'B1\tF\tDj\n\nx\ty'
OcrTabbed ==
  <<"B","1","\t","F","\t","D","j","\n","\n","x","\t","y">>

\* 'B1  F  Dj'
OcrSpaced ==
  <<"B","1"," "," ","F"," "," ","D","j">>

\* ' \n'
OcrBlank ==
  <<" ","\n">>

\* '01/06/2026'
DateMarker ==
  <<"0","1","/","0","6","/","2","0","2","6">>

\* ' 31/12/1999 '
DateMarkerPadded ==
  <<" ","3","1","/","1","2","/","1","9","9","9"," ">>

\* '01/06/2026x'
DateMarkerTail ==
  <<"0","1","/","0","6","/","2","0","2","6","x">>

\* 'fgBLMN'
AllCodes ==
  <<"f","g","B","L","M","N">>

\* text lines a PDF page may hold
RawLines ==
  {LineExample, LineLetter4, LineDate, LineDateTail, LineNoMarker4, LineNoMarker3,
   LineLetter3, LineOneField, LineBlank, LineUntrimmed, LineFourUpper}

\* page.extract_text() of one page: None, or its lines joined by newlines
PageTexts == {NA} \cup {join(<<"\n">>, ls) : ls \in SeqsUpTo(RawLines, MaxLines)}

\* what OCR reads from the pages of a PDF, or from an image
OcrTexts == {<<>>, OcrBlank, OcrTabbed, OcrSpaced}

NoFile ==
  [kind |-> "none"]

\* an uploaded PDF: does pdfplumber.open succeed, does extract_text succeed,
\* the text of its pages, does OCR succeed and what it reads from each page
PdfUploads ==
  {[kind |-> "pdf", opens |-> FALSE, extracts |-> FALSE, pages |-> <<>>,
    ocr_ok |-> FALSE, ocr_pages |-> <<>>]}
  \cup
  {[kind |-> "pdf", opens |-> TRUE, extracts |-> TRUE, pages |-> <<p>>,
    ocr_ok |-> TRUE, ocr_pages |-> <<<<>>>>] : p \in PageTexts}
  \cup
  {[kind |-> "pdf", opens |-> TRUE, extracts |-> TRUE, pages |-> <<NA, p, LineDate>>,
    ocr_ok |-> TRUE, ocr_pages |-> <<<<>>, <<>>, <<>>>>] : p \in {<<>>, LineBlank, LineLetter4}}
  \cup
  {[kind |-> "pdf", opens |-> TRUE, extracts |-> e, pages |-> <<p, q>>,
    ocr_ok |-> ok, ocr_pages |-> <<t, u>>] :
      e \in BOOLEAN, ok \in BOOLEAN, p \in {NA, <<>>}, q \in {<<>>, LineBlank},
      t \in OcrTexts, u \in {<<>>, OcrSpaced}}

\* an uploaded image: the host, whether `which tesseract` finds the program,
\* whether PIL can open the file, whether the OCR run fails, and what it reads
ImageUploads ==
  {[kind |-> "image", linux |-> l, tesseract |-> t, readable |-> r,
    ocr_ok |-> ok, ocr_text |-> x] :
      l \in BOOLEAN, t \in BOOLEAN, r \in BOOLEAN, ok \in BOOLEAN, x \in OcrTexts}

\* cells of the tables
CellDj == <<"D", "j">>
CellP1 == <<"P", "1">>
Cell4H == <<"4", "H">>
CellFN == <<"F", "N">>

ElectorNumberCells ==
  {<<"B","1",".","2">>, <<".","7">>, <<"1","2">>, <<>>, <<"A","_","1"," ","x">>}

SplitSchema ==
  <<"Elector Number Prefix", "Elector Number", "Elector Number Suffix",
    "Elector Markers", "Name", "Postcode", "Address 1">>

\* the tables a CSV file or a pasted text may hold: columns and the fields of
\* the rows as written (an empty field is the empty string)
TableRows(columns) ==
  CASE columns = <<"Elector Number", "Name">> ->
         {<<en, CellDj>> : en \in ElectorNumberCells}
    [] columns = SplitSchema ->
         {<<p, n, x, CellFN, CellDj, CellP1, Cell4H>> :
            p \in {<<"A">>, <<" ","B","A">>}, n \in {<<"1","2">>, <<"B","A">>},
            x \in {<<>>, <<"3">>}}
    [] columns = <<"foo">> ->
         {<<<<"x">>>>}
    [] columns = <<"Polling District", "Elector Number">> ->
         {<<<<"Q">>, en>> : en \in {<<"B","1",".","2">>, <<".","7">>}}
    [] columns = <<"Elector Markers", "Name", "Postcode", "Address 1">> ->
         {<<m, CellDj, CellP1, Cell4H>> : m \in {<<"F">>, <<>>}}

Schemas ==
  {<<"Elector Number", "Name">>, SplitSchema, <<"foo">>,
   <<"Polling District", "Elector Number">>,
   <<"Elector Markers", "Name", "Postcode", "Address 1">>}

TableUploads ==
  {[kind |-> "table", parses |-> FALSE, columns |-> <<>>, rows |-> <<>>]}
  \cup
  UNION {{[kind |-> "table", parses |-> TRUE, columns |-> c, rows |-> rs] :
            rs \in SeqsUpTo(TableRows(c), MaxRows)} : c \in Schemas}

Methods == {"Upload CSV", "Upload PDF", "Upload Image (PNG/JPG)", "Paste Table"}

\* what the widget of a branch can return: nothing yet, or the user's input
Uploads(method) ==
  {NoFile} \cup
  CASE method = "Upload CSV" -> TableUploads
    [] method = "Upload PDF" -> PdfUploads
    [] method = "Upload Image (PNG/JPG)" -> ImageUploads
    [] method = "Paste Table" -> TableUploads

\* arguments of the direct calls of translate_marker
MarkerChars == {"F", "N", "g", "X", " ", "1"}

MarkerInputs ==
  {NA} \cup SeqsUpTo(MarkerChars, MaxMarkerLen)
       \cup {DateMarker, DateMarkerPadded, DateMarkerTail, AllCodes}

-----------------------------------------------------------------------------
(* The script run *)

Msg(kind, text) == [kind |-> kind, text |-> text]

CsvSuccess       == Msg("success", "CSV file uploaded successfully.")
PdfSuccess       == Msg("success", "Structured data extracted from PDF.")
PdfLinesShown    == Msg("text", "Extracted Lines from PDF")
PdfNoRecords     == Msg("warning", "Could not parse PDF lines into structured register format.")
PdfOcrSuccess    == Msg("success", "OCR fallback used. Please review extracted content.")
PdfOcrFailed     == Msg("error", "Failed to extract PDF content with OCR")
ImageSuccess     == Msg("success", "Image scanned and text extracted. Please review below.")
OcrNotAvailable  == Msg("error", "OCR is not available in this environment.")
PasteSuccess     == Msg("success", "Table parsed successfully.")
PasteFailed      == Msg("error", "Could not parse pasted table. Make sure it's comma-separated.")
MissingColumns   == Msg("warning", "Missing one or more expected columns. Please check your input file.")

\* columns=[...] of line 89
PdfColumns == <<"Elector Number", "Marker", "Name", "Address", "Elector Marker Type">>

Init ==
  /\ pc = "idle"
  /\ input_method = "Upload CSV"
  /\ upload = NoFile
  /\ translate_marker_defined = FALSE
  /\ df_raw = Unbound
  /\ messages = <<>>
  /\ shown = NoTable
  /\ download = NoDownload
  /\ tm_in = NA
  /\ tm_out = NA
  /\ tm_called = FALSE

\* The user picks an input method and supplies (or not yet) its input; the host
\* runs the script from the top in a fresh namespace (line 32).
SelectInput ==
  /\ pc = "idle"
  /\ \E m \in Methods : \E u \in Uploads(m) :
       /\ input_method' = m
       /\ upload' = u
  /\ pc' = "input"
  /\ UNCHANGED <<translate_marker_defined, df_raw, messages, shown, download,
                 tm_in, tm_out, tm_called>>

\* lines 34-38: pd.read_csv stands outside any try, so an exception of it
\* leaves the script
UploadCSV ==
  /\ pc = "input"
  /\ input_method = "Upload CSV"
  /\ IF upload.kind = "none"
     THEN /\ pc' = "helpers"
          /\ UNCHANGED <<df_raw, messages>>
     ELSE IF ~upload.parses
     THEN /\ pc' = "crashed"
          /\ UNCHANGED <<df_raw, messages>>
     ELSE /\ df_raw' = read_csv(upload.columns, upload.rows)
          /\ messages' = Append(messages, CsvSuccess)
          /\ pc' = "helpers"
  /\ UNCHANGED <<input_method, upload, translate_marker_defined, shown, download,
                 tm_in, tm_out, tm_called>>

\* lines 95-108: the handler of any exception of lines 44-92
PdfOcrFallback(ms) ==
  IF upload.opens /\ upload.ocr_ok
  THEN /\ df_raw' = DataFrameOfRows(rows_of(join(<<"\n">>, upload.ocr_pages)))
       /\ messages' = Append(ms, PdfOcrSuccess)
  ELSE /\ df_raw' = df_raw
       /\ messages' = Append(ms, PdfOcrFailed)

\* lines 40-108
UploadPDF ==
  /\ pc = "input"
  /\ input_method = "Upload PDF"
  /\ IF upload.kind = "none"
     THEN UNCHANGED <<df_raw, messages>>
     ELSE IF ~upload.opens \/ ~upload.extracts
     THEN PdfOcrFallback(messages)
     ELSE LET text == text_of(upload.pages)
          IN  IF strip(text) = <<>>
              THEN PdfOcrFallback(messages)
              ELSE LET lines == lines_of(text)
                       extracted == extract(lines, translate_marker_defined)
                   IN  IF extracted # <<>>
                       THEN /\ df_raw' = DataFrame(extracted, PdfColumns)
                            /\ messages' = messages \o <<PdfLinesShown, PdfSuccess>>
                       ELSE /\ df_raw' = df_raw
                            /\ messages' = messages \o <<PdfLinesShown, PdfNoRecords>>
  /\ pc' = "helpers"
  /\ UNCHANGED <<input_method, upload, translate_marker_defined, shown, download,
                 tm_in, tm_out, tm_called>>

\* lines 110-122: only FileNotFoundError is handled
UploadImage ==
  /\ pc = "input"
  /\ input_method = "Upload Image (PNG/JPG)"
  /\ IF upload.kind = "none"
     THEN /\ pc' = "helpers"
          /\ UNCHANGED <<df_raw, messages>>
     ELSE IF upload.linux /\ ~upload.tesseract
     THEN /\ messages' = Append(messages, OcrNotAvailable)
          /\ pc' = "helpers"
          /\ UNCHANGED df_raw
     ELSE IF ~upload.readable \/ ~upload.tesseract \/ ~upload.ocr_ok
     THEN /\ pc' = "crashed"
          /\ UNCHANGED <<df_raw, messages>>
     ELSE /\ df_raw' = DataFrameOfRows(rows_of(upload.ocr_text))
          /\ messages' = Append(messages, ImageSuccess)
          /\ pc' = "helpers"
  /\ UNCHANGED <<input_method, upload, translate_marker_defined, shown, download,
                 tm_in, tm_out, tm_called>>

\* lines 124-131
PasteTable ==
  /\ pc = "input"
  /\ input_method = "Paste Table"
  /\ IF upload.kind = "none"
     THEN UNCHANGED <<df_raw, messages>>
     ELSE IF ~upload.parses
     THEN /\ messages' = Append(messages, PasteFailed)
          /\ UNCHANGED df_raw
     ELSE /\ df_raw' = read_csv(upload.columns, upload.rows)
          /\ messages' = Append(messages, PasteSuccess)
  /\ pc' = "helpers"
  /\ UNCHANGED <<input_method, upload, translate_marker_defined, shown, download,
                 tm_in, tm_out, tm_called>>

\* line 136: the def statement binds the name translate_marker
DefineHelpers ==
  /\ pc = "helpers"
  /\ translate_marker_defined' = TRUE
  /\ pc' = "export"
  /\ UNCHANGED <<input_method, upload, df_raw, messages, shown, download,
                 tm_in, tm_out, tm_called>>

\* lines 155-171
ProcessAndExport ==
  /\ pc = "export"
  /\ IF ~df_raw.bound
     THEN UNCHANGED <<df_raw, messages, shown, download>>
     ELSE IF has_column(df_raw, "Elector Number")
             /\ str_accessor_raises(df_raw, "Elector Number")
     THEN /\ messages' = Append(messages, MissingColumns)
          /\ UNCHANGED <<df_raw, shown, download>>
     ELSE /\ df_raw' = with_polling_district(df_raw)
          /\ shown' = head(df_raw')
          /\ download' = to_csv(df_raw')
          /\ UNCHANGED messages
  /\ pc' = "done"
  /\ UNCHANGED <<input_method, upload, translate_marker_defined, tm_in, tm_out, tm_called>>

\* The run is over (finished, or stopped by an exception); the host waits for
\* the next interaction and then runs the script again from the top.
Rerun ==
  /\ pc \in {"done", "crashed"}
  /\ pc' = "idle"
  /\ input_method' = "Upload CSV"
  /\ upload' = NoFile
  /\ translate_marker_defined' = FALSE
  /\ df_raw' = Unbound
  /\ messages' = <<>>
  /\ shown' = NoTable
  /\ download' = NoDownload
  /\ UNCHANGED <<tm_in, tm_out, tm_called>>

Next ==
  \/ SelectInput
  \/ UploadCSV
  \/ UploadPDF
  \/ UploadImage
  \/ PasteTable
  \/ DefineHelpers
  \/ ProcessAndExport
  \/ Rerun

Spec == Init /\ [][Next]_vars

-----------------------------------------------------------------------------
(* Direct calls of the helper: translate_marker applied to a bounded set of
   arguments, after the script has run past its definition *)

InitDecode ==
  /\ pc = "done"
  /\ input_method = "Upload CSV"
  /\ upload = NoFile
  /\ translate_marker_defined = TRUE
  /\ df_raw = Unbound
  /\ messages = <<>>
  /\ shown = NoTable
  /\ download = NoDownload
  /\ tm_in \in MarkerInputs
  /\ tm_out = NA
  /\ tm_called = FALSE

CallTranslateMarker ==
  /\ ~tm_called
  /\ translate_marker_defined
  /\ tm_out' = translate_marker(tm_in)
  /\ tm_called' = TRUE
  /\ UNCHANGED <<pc, input_method, upload, translate_marker_defined, df_raw,
                 messages, shown, download, tm_in>>

NextDecode == CallTranslateMarker

SpecDecode == InitDecode /\ [][NextDecode]_vars

-----------------------------------------------------------------------------
(* Terms of the claims *)

\* the run read the text layer of a PDF (it did not fall back to OCR)
OnTextLayer ==
  /\ upload.kind = "pdf"
  /\ upload.opens
  /\ upload.extracts
  /\ strip(text_of(upload.pages)) # <<>>

\* the run has executed its input branch
BranchDone == pc \in {"helpers", "export", "done"}

\* the non-blank, trimmed lines of the text layer
TextLines == lines_of(text_of(upload.pages))

Rendered(m) == \E i \in DOMAIN messages : messages[i] = m

\* the description the decoder's table gives one character
Describe(c) ==
  CASE c = "F" -> DescF
    [] c = "G" -> DescG
    [] c = "B" -> DescB
    [] c = "L" -> DescL
    [] c = "M" -> DescM
    [] c = "N" -> DescN
    [] OTHER   -> UnknownOpen \o <<c>> \o <<")">>

\* the descriptions of the first n characters of u, in order, joined by ", "
RECURSIVE Decoded(_, _)
Decoded(u, n) ==
  IF n = 0 THEN <<>>
  ELSE IF n = 1 THEN Describe(u[1])
  ELSE Decoded(u, n - 1) \o JoinSep \o Describe(u[n])

\* the leading run of word characters of s: what is left of s when it is cut
\* at its first character that is not a word character
LeadingWordChars(s) ==
  LET stops == {i \in DOMAIN s : ~IsWord(s[i])}
  IN  IF stops = {} THEN s
      ELSE SubSeq(s, 1, (CHOOSE i \in stops : \A j \in stops : i <= j) - 1)

\* the text of a cell: a missing value has none
CellText(v) == IF isna(v) THEN <<>> ELSE v

\* the field of record i of the offered CSV under the column called name
CsvField(i, name) ==
  download.rows[i][CHOOSE j \in DOMAIN download.header : download.header[j] = name]

CsvHas(name) == \E j \in DOMAIN download.header : download.header[j] = name

-----------------------------------------------------------------------------
(* The claims *)

\* C1: every line of the text layer with four or more fields whose second
\* field is 1 to 3 uppercase letters yields a record with ElectorNumber, Marker,
\* Name and Address equal to its first four fields; the line is not skipped.
C1_LetterMarkerLineParsed ==
  (BranchDone /\ OnTextLayer) =>
    \A k \in DOMAIN TextLines :
      LET f == parts_of(TextLines[k])
      IN  (Len(f) >= 4 /\ letters_pattern(f[2])) =>
            /\ df_raw.bound
            /\ \E i \in DOMAIN df_raw.rows :
                 /\ df_raw.rows[i][1] = f[1]
                 /\ df_raw.rows[i][2] = f[2]
                 /\ df_raw.rows[i][3] = f[3]
                 /\ df_raw.rows[i][4] = f[4]

\* C2: for a marker that is neither missing, empty nor a date, translate_marker
\* returns the table's description of each character of the trimmed, uppercased
\* marker, in the original order, joined by ", ", one entry per character.
C2_MarkerDecodedByTable ==
  (tm_called /\ ~isna(tm_in) /\ tm_in # <<>> /\ ~date_pattern(strip(tm_in))) =>
    LET u == upper(strip(tm_in)) IN tm_out = Decoded(u, Len(u))

\* C2 witness: a marker with a lowercase code, an unknown code and a repeat
C2_Witness ==
  /\ tm_called
  /\ tm_in = <<"g", "X", "g">>
  /\ tm_out = DescG \o JoinSep \o UnknownOpen \o <<"X", ")">> \o JoinSep \o DescG

\* C3: a missing or empty raw marker is decoded as "Eligible for all local
\* elections": by translate_marker for a missing value and for "", and in the
\* record of a parsed line in which no marker field was found.
C3_DefaultEligibility ==
  /\ (tm_called /\ (isna(tm_in) \/ tm_in = <<>>)) => tm_out = DefaultEligible
  /\ (BranchDone /\ OnTextLayer /\ df_raw.bound) =>
       \A i \in DOMAIN df_raw.rows :
         df_raw.rows[i][2] = <<>> => df_raw.rows[i][5] = DefaultEligible

\* C4: a marker that, trimmed, starts with a DD/MM/YYYY date is decoded by
\* translate_marker as "Will become eligible to vote on " followed by that date.
C4_DateMarkerDecoded ==
  (tm_called /\ ~isna(tm_in) /\ date_pattern(strip(tm_in))) =>
    tm_out = WillBecome \o SubSeq(strip(tm_in), 1, 10)

\* C5: a finished run on a PDF or an image whose parsing gave no record has
\* rendered the no-records warning and shows and offers no table.
C5_ZeroRecordsRejected ==
  (/\ pc = "done"
   /\ upload.kind \in {"pdf", "image"}
   /\ \/ OnTextLayer /\ ~df_raw.bound
      \/ df_raw.bound /\ df_raw.rows = <<>>)
  => /\ Rendered(PdfNoRecords)
     /\ ~shown.bound
     /\ ~download.offered

\* the columns the mandatory roles Marker, Name, Postcode, Address1 resolve to
MandatoryResolved(columns) ==
  /\ \E j \in DOMAIN columns : columns[j] \in {"Elector Markers", "Marker"}
  /\ \E j \in DOMAIN columns : columns[j] = "Name"
  /\ \E j \in DOMAIN columns : columns[j] = "Postcode"
  /\ \E j \in DOMAIN columns : columns[j] = "Address 1"

\* C6: a finished run on a table whose columns do not resolve all of Marker,
\* Name, Postcode and Address1 has rendered the missing-fields warning and shows
\* and offers no table.
C6_MissingRolesRejected ==
  (/\ pc = "done"
   /\ upload.kind = "table"
   /\ upload.parses
   /\ ~MandatoryResolved(upload.columns))
  => /\ Rendered(MissingColumns)
     /\ ~shown.bound
     /\ ~download.offered

\* the step of the selected branch failed
StepFailed ==
  \/ upload.kind = "table" /\ ~upload.parses
  \/ upload.kind = "pdf" /\ ~upload.opens
  \/ upload.kind = "pdf" /\ ~OnTextLayer /\ ~upload.ocr_ok
  \/ upload.kind = "image"
       /\ (~upload.tesseract \/ ~upload.readable \/ ~upload.ocr_ok)

\* C7: no exception leaves the script, and a run whose step failed has rendered
\* a warning or an error.
C7_NoUnhandledFault ==
  /\ pc # "crashed"
  /\ (pc = "done" /\ StepFailed) =>
       \E i \in DOMAIN messages : messages[i].kind \in {"warning", "error"}

\* C8: for a table with prefix, number and suffix columns the exported Elector
\* Number of each record is "prefix.number.suffix" of the trimmed values when
\* all three are non-empty and "" otherwise, and its Polling District is the
\* trimmed prefix.
C8_SplitFieldsAssembled ==
  (/\ pc = "done"
   /\ upload.kind = "table"
   /\ upload.parses
   /\ upload.columns = SplitSchema)
  => /\ download.offered
     /\ CsvHas("Elector Number")
     /\ CsvHas("Polling District")
     /\ \A i \in DOMAIN upload.rows :
          LET prefix == strip(upload.rows[i][1])
              number == strip(upload.rows[i][2])
              suffix == strip(upload.rows[i][3])
          IN  /\ CsvField(i, "Elector Number") =
                   IF prefix # <<>> /\ number # <<>> /\ suffix # <<>>
                   THEN prefix \o <<".">> \o number \o <<".">> \o suffix
                   ELSE <<>>
              /\ CsvField(i, "Polling District") = prefix

\* C9: the step that exports a table with an Elector Number column gives every
\* record the leading run of word characters of its elector number as Polling
\* District (a missing value, written as the empty field, when there is no such
\* run) and leaves the elector number and every other column as they were.
C9_PollingDistrictDerived ==
  [][(/\ pc = "export"
      /\ download'.offered
      /\ has_column(df_raw, "Elector Number"))
     => /\ has_column(df_raw', "Polling District")
        /\ shown' = df_raw'
        /\ Len(df_raw'.rows) = Len(df_raw.rows)
        /\ Len(download'.rows) = Len(df_raw.rows)
        /\ \A i \in DOMAIN df_raw.rows :
             LET en   == df_raw.rows[i][column_index(df_raw, "Elector Number")]
                 pd   == df_raw'.rows[i][column_index(df_raw', "Polling District")]
                 word == LeadingWordChars(CellText(en))
             IN  /\ CellText(pd) = word
                 /\ isna(pd) <=> word = <<>>
                 /\ download'.rows[i][column_index(df_raw', "Polling District")] = word
                 /\ \A j \in DOMAIN df_raw.columns :
                      df_raw.columns[j] # "Polling District" =>
                        /\ df_raw'.columns[j] = df_raw.columns[j]
                        /\ df_raw'.rows[i][j] = df_raw.rows[i][j]
                        /\ download'.rows[i][j] = CellText(df_raw.rows[i][j])
                        /\ download'.header[j] = df_raw.columns[j]]_vars

\* C9 witness: an exported table with one record whose district is a proper
\* prefix of its elector number and one whose elector number has no leading word
C9_Witness ==
  /\ pc = "done"
  /\ download.offered
  /\ has_column(df_raw, "Elector Number")
  /\ has_column(df_raw, "Polling District")
  /\ \E i, k \in DOMAIN df_raw.rows :
       LET e == column_index(df_raw, "Elector Number")
           d == column_index(df_raw, "Polling District")
       IN  /\ df_raw.rows[i][e] = <<"B", "1", ".", "2">>
           /\ df_raw.rows[i][d] = <<"B", "1">>
           /\ df_raw.rows[k][e] = <<".", "7">>
           /\ isna(df_raw.rows[k][d])
           /\ download.rows[k][d] = <<>>

\* C10: a line of the text layer with exactly three fields, the second neither
\* a date nor a letter marker, yields a record with Name = second field and
\* Address = third field; a line with fewer than three fields yields none.
C10_ThreeFieldLineParsed ==
  (BranchDone /\ OnTextLayer) =>
    /\ \A k \in DOMAIN TextLines :
         LET f == parts_of(TextLines[k])
         IN  (Len(f) = 3 /\ ~date_pattern(f[2]) /\ ~letters_pattern(f[2])) =>
               /\ df_raw.bound
               /\ \E i \in DOMAIN df_raw.rows :
                    /\ df_raw.rows[i][1] = f[1]
                    /\ df_raw.rows[i][3] = f[2]
                    /\ df_raw.rows[i][4] = f[3]
    /\ (\A k \in DOMAIN TextLines : Len(parts_of(TextLines[k])) < 3) => ~df_raw.bound

=============================================================================
